---------------------------- MODULE Spec2Model ----------------------------
(***************************************************************************)
(* A model of BLOD's graph-cloud component (StaticGraph, Graph.js) and of  *)
(* the backend's database connector (connectToMongoDB, db.js).             *)
(*                                                                         *)
(* Frontend state: the component's `data` prop, its graphRendered state,   *)
(* whether the render effect is due, and the content of the #graph svg     *)
(* that renderStaticGraph draws with d3 (node groups, link lines, the      *)
(* "highlighted" class), plus the browser effects of the click handler.    *)
(* Backend state: the module-level dbInstance / clientInstance and the     *)
(* position of every call of the async function connectToMongoDB.          *)
(***************************************************************************)
EXTENDS Integers, Sequences, FiniteSets

VARIABLES
    data,           \* the `data` prop: [oid, nodes, links]; oid is the object's identity
    graphRendered,  \* useState(false), Graph.js:9
    effectDue,      \* the effect's deps [data, graphRendered] changed since it last ran
    viewport,       \* [width, height]: clientWidth / clientHeight of the #graph svg
    forceLayout,    \* id -> <<x, y>>: where the 300 ticks of d3's simulation leave a node
    svgNodes,       \* the g.node-group elements, in document order: [id, url, x, y, r]
    svgLinks,       \* the line.link elements, in document order: [source, target]
    hlLinks,        \* indices of the line.link elements carrying class "highlighted"
    hlCircles,      \* ids of the node groups whose circle carries class "highlighted"
    effectLog,      \* history: one entry [oid, rendered] per run of the effect
    lastEvent,      \* history: the last hover event [type, node, dirty]
    clicked,        \* history: the url of the node of every click, in order
    opened,         \* the urls passed to window.open, in order
    warned,         \* number of console.warn calls of the click handler
    dbInstance,     \* db.js:5
    clientInstance, \* db.js:6
    pc,             \* per call of connectToMongoDB: where it stands
    connected,      \* the clients whose connect() succeeded
    returned,       \* per call: the handle it returned (0: none yet)
    exPc,           \* per PNG export: where handleDownloadPNG and its callbacks stand
    exImage,        \* per PNG export: the state of its Image
    exCanvas,       \* per PNG export: the state of its canvas
    exDownloads,    \* per PNG export: clicks on its static-graph.png link
    exLog           \* history, per PNG export: what happened in it, in order

uiVars  == <<data, graphRendered, effectDue, viewport, forceLayout, svgNodes,
             svgLinks, hlLinks, hlCircles, effectLog, lastEvent, clicked,
             opened, warned>>
dbVars  == <<dbInstance, clientInstance, pc, connected, returned>>
exVars  == <<exPc, exImage, exCanvas, exDownloads, exLog>>
vars    == <<uiVars, dbVars, exVars>>

---------------------------------------------------------------------------
(* Bounds of the model *)

MaxLinks       == 3  \* links per dataset, rendering
MaxHoverLinks  == 2  \* links per dataset, hovering
MaxLayoutLinks == 1  \* links per dataset, laying out in every viewport
MaxClicks      == 2  \* clicks per run
MaxEffectRuns  == 4  \* effect runs after which the parent stops replacing `data`
MaxCalls       == 3  \* calls of connectToMongoDB
MaxExports     == 3  \* clicks on "Download Cloud as PNG"

(* Program constants *)

minNodeSize == 20
maxNodeSize == 40
Margin      == 30

---------------------------------------------------------------------------
(* Values *)

Min2(a, b) == IF a <= b THEN a ELSE b
Max2(a, b) == IF a >= b THEN a ELSE b
MaxOf(S)   == CHOOSE m \in S : \A x \in S : x <= m

SeqsUpTo(S, n) == UNION {[1..k -> S] : k \in 0..n}
Range(s)       == {s[i] : i \in DOMAIN s}

\* A JavaScript string is a sequence of one-character strings; a url is a
\* string or undefined.
Undefined == [defined |-> FALSE, chars |-> <<>>]
Str(cs)   == [defined |-> TRUE, chars |-> cs]

\* String.prototype.startsWith
StartsWith(s, prefix) ==
    /\ Len(s) >= Len(prefix)
    /\ \A i \in 1..Len(prefix) : s[i] = prefix[i]

Http == <<"h", "t", "t", "p">>

\* A radius is the rational num / den, den > 0.
RLeq(a, b) == a.num * b.den <= b.num * a.den
RIs(a, n)  == a.num = n * a.den

---------------------------------------------------------------------------
(* renderStaticGraph, Graph.js:19-210 *)

\* A link's endpoint is the id the code reads off it,
\*   typeof link.source === 'object' ? link.source.id : link.source
\* so a link is [source |-> id, target |-> id] for both shapes.

\* Graph.js:64-68, with the second add (the target's) left out.
LinkedNodeIdsSourceOnly(links) == {links[i].source : i \in DOMAIN links}

\* Graph.js:64-68: the ids added to linkedNodeIds.
LinkedNodeIds(links) ==
    UNION {{links[i].source, links[i].target} : i \in DOMAIN links}

\* Graph.js:71
ConnectedNodes(d) ==
    SelectSeq(d.nodes, LAMBDA node : node.id \in LinkedNodeIds(d.links))

\* Graph.js:74-78
ValidLinks(d) ==
    SelectSeq(d.links, LAMBDA link : /\ link.source \in LinkedNodeIds(d.links)
                                     /\ link.target \in LinkedNodeIds(d.links))

\* Graph.js:81-89: 0 for every connected node, then one more per valid link
\* for its target (a target that is no connected node gets an entry too).
IncomingLinkCounts(d) ==
    LET cn == ConnectedNodes(d)
        vl == ValidLinks(d)
        keys == {cn[i].id : i \in DOMAIN cn} \cup {vl[i].target : i \in DOMAIN vl}
    IN  [k \in keys |-> Cardinality({i \in DOMAIN vl : vl[i].target = k})]

\* Graph.js:94
MaxIncomingLinks(d) == MaxOf({1} \cup Range(IncomingLinkCounts(d)))

\* Graph.js:96-99: d3.scaleLinear().domain([0, maxIn]).range([20, 40]).clamp(true)
\* at c, as the exact rational 20 + 20 * c / maxIn.
NodeSizeScale(c, maxIn) ==
    LET t == Min2(Max2(c, 0), maxIn)
    IN  [num |-> minNodeSize * maxIn + (maxNodeSize - minNodeSize) * t,
         den |-> maxIn]

\* Graph.js:114-115 with the lower clamp only.
ClampToViewportLowOnly(v, size) == Max2(v, Margin)

\* Graph.js:114-115: Math.min(Math.max(v, 30), size - 30)
ClampToViewport(v, size) == Min2(Max2(v, Margin), size - Margin)

\* Graph.js:135-154: one node group per connected node, at its clamped
\* position, with its circle's radius.
NodeGroups(d, vp, layout) ==
    LET cn == ConnectedNodes(d)
        counts == IncomingLinkCounts(d)
    IN  [i \in DOMAIN cn |->
            [id  |-> cn[i].id,
             url |-> cn[i].url,
             x   |-> ClampToViewport(layout[cn[i].id][1], vp.width),
             y   |-> ClampToViewport(layout[cn[i].id][2], vp.height),
             r   |-> NodeSizeScale(counts[cn[i].id], MaxIncomingLinks(d))]]

---------------------------------------------------------------------------
(* The component: StaticGraph, Graph.js:8-17, and the handlers that        *)
(* renderStaticGraph installs, Graph.js:158-209                            *)

\* Graph.js:160 with the startsWith test left out.
ClickOpensNoPrefixTest(url) ==
    /\ url.defined
    /\ url.chars # <<>>
    /\ url.chars # <<"#">>

\* Graph.js:160: d.url && d.url !== '#' && d.url.startsWith('http')
ClickOpens(url) ==
    /\ url.defined
    /\ url.chars # <<>>
    /\ url.chars # <<"#">>
    /\ StartsWith(url.chars, Http)

\* Graph.js:182-186: the links that get class "highlighted" (all others lose it).
IncidentLinks(links, nodeId) ==
    {i \in DOMAIN links : links[i].source = nodeId \/ links[i].target = nodeId}

\* Graph.js:189-201: the node groups some valid link joins to nodeId.
ConnectedGroups(groups, links, nodeId) ==
    {groups[j].id : j \in {k \in DOMAIN groups :
        \E i \in DOMAIN links :
            \/ links[i].source = nodeId /\ links[i].target = groups[k].id
            \/ links[i].target = nodeId /\ links[i].source = groups[k].id}}

\* Graph.js:203-209 with line 208 left out: only the left node's circle is cleared.
CirclesAfterMouseOutTargetOnly(circles, groups, nodeId) == circles \ {nodeId}

\* Graph.js:206, 208: the left node's circle loses the class, then every
\* .node-circle of the svg does.
CirclesAfterMouseOut(circles, groups, nodeId) ==
    (circles \ {nodeId}) \ {groups[j].id : j \in DOMAIN groups}

\* Graph.js:12 without the graphRendered test.
EffectReturnsEarlyNoLatch(d, rendered) ==
    Len(d.nodes) = 0 \/ Len(d.links) = 0

\* Graph.js:12: the effect's early return.
EffectReturnsEarly(d, rendered) ==
    Len(d.nodes) = 0 \/ Len(d.links) = 0 \/ rendered

\* Graph.js:11-17: one run of the effect. renderStaticGraph clears the svg
\* and draws the links and node groups; setGraphRendered(true) changes a
\* dep, so the effect is due again.
RunEffect ==
    /\ effectDue
    /\ IF EffectReturnsEarly(data, graphRendered)
       THEN /\ effectDue' = FALSE
            /\ effectLog' = Append(effectLog, [oid |-> data.oid, rendered |-> FALSE])
            /\ UNCHANGED <<graphRendered, svgNodes, svgLinks, hlLinks, hlCircles>>
       ELSE /\ svgNodes' = NodeGroups(data, viewport, forceLayout)
            /\ svgLinks' = ValidLinks(data)
            /\ hlLinks' = {}
            /\ hlCircles' = {}
            /\ graphRendered' = TRUE
            /\ effectDue' = TRUE
            /\ effectLog' = Append(effectLog, [oid |-> data.oid, rendered |-> TRUE])
    /\ UNCHANGED <<data, viewport, forceLayout, lastEvent, clicked, opened, warned>>
    /\ UNCHANGED <<dbVars, exVars>>

\* The parent passes another Dataset object as `data`: a dep changes.
\* React runs a render's effects before it renders again.
SetData(d) ==
    /\ ~effectDue
    /\ Len(effectLog) < MaxEffectRuns
    /\ d.oid # data.oid
    /\ data' = d
    /\ effectDue' = TRUE
    /\ UNCHANGED <<graphRendered, viewport, forceLayout, svgNodes, svgLinks,
                   hlLinks, hlCircles, effectLog, lastEvent, clicked, opened, warned>>
    /\ UNCHANGED <<dbVars, exVars>>

\* Graph.js:179-202: mouseover on node group i.
MouseOver(i) ==
    /\ i \in DOMAIN svgNodes
    /\ LET nodeId == svgNodes[i].id IN
        /\ hlLinks' = IncidentLinks(svgLinks, nodeId)
        /\ hlCircles' = hlCircles \cup {nodeId}
                            \cup ConnectedGroups(svgNodes, svgLinks, nodeId)
        /\ lastEvent' = [type |-> "mouseover", node |-> nodeId,
                         dirty |-> hlLinks # {} \/ hlCircles # {}]
    /\ UNCHANGED <<data, graphRendered, effectDue, viewport, forceLayout, svgNodes,
                   svgLinks, effectLog, clicked, opened, warned>>
    /\ UNCHANGED <<dbVars, exVars>>

\* Graph.js:203-209: mouseout on node group i.
MouseOut(i) ==
    /\ i \in DOMAIN svgNodes
    /\ hlLinks' = hlLinks \ DOMAIN svgLinks
    /\ hlCircles' = CirclesAfterMouseOut(hlCircles, svgNodes, svgNodes[i].id)
    /\ lastEvent' = [type |-> "mouseout", node |-> svgNodes[i].id,
                     dirty |-> hlLinks # {} \/ hlCircles # {}]
    /\ UNCHANGED <<data, graphRendered, effectDue, viewport, forceLayout, svgNodes,
                   svgLinks, effectLog, clicked, opened, warned>>
    /\ UNCHANGED <<dbVars, exVars>>

\* Graph.js:158-165: click on the circle of node group i.
Click(i) ==
    /\ i \in DOMAIN svgNodes
    /\ Len(clicked) < MaxClicks
    /\ clicked' = Append(clicked, svgNodes[i].url)
    /\ IF ClickOpens(svgNodes[i].url)
       THEN opened' = Append(opened, svgNodes[i].url) /\ warned' = warned
       ELSE opened' = opened /\ warned' = warned + 1
    /\ UNCHANGED <<data, graphRendered, effectDue, viewport, forceLayout, svgNodes,
                   svgLinks, hlLinks, hlCircles, effectLog, lastEvent>>
    /\ UNCHANGED <<dbVars, exVars>>

---------------------------------------------------------------------------
(* connectToMongoDB, db.js:8-21 *)

Calls == 1..MaxCalls

\* db.js:9: if (!dbInstance)
NeedsConnect(instance, pcs) == instance = 0

\* db.js:8-12, 20: the call runs to its first await. With no memoized handle
\* it creates its own MongoClient (client c) and awaits client.connect();
\* otherwise it returns dbInstance.
CallConnect(c) ==
    /\ pc[c] = "idle"
    /\ IF NeedsConnect(dbInstance, pc)
       THEN pc' = [pc EXCEPT ![c] = "awaiting"] /\ returned' = returned
       ELSE pc' = [pc EXCEPT ![c] = "returned"]
            /\ returned' = [returned EXCEPT ![c] = dbInstance]
    /\ UNCHANGED <<dbInstance, clientInstance, connected>>
    /\ UNCHANGED <<uiVars, exVars>>

\* client.connect() of call c succeeds: its connection is established.
ConnectSucceeds(c) ==
    /\ pc[c] = "awaiting"
    /\ connected' = connected \cup {c}
    /\ pc' = [pc EXCEPT ![c] = "connected"]
    /\ UNCHANGED <<dbInstance, clientInstance, returned>>
    /\ UNCHANGED <<uiVars, exVars>>

\* db.js:13-14, 20: the call resumes after the await; client.db() of
\* client c is handle c.
Resume(c) ==
    /\ pc[c] = "connected"
    /\ dbInstance' = c
    /\ returned' = [returned EXCEPT ![c] = c]
    /\ pc' = [pc EXCEPT ![c] = "returned"]
    /\ UNCHANGED <<clientInstance, connected>>
    /\ UNCHANGED <<uiVars, exVars>>

\* db.js:15-18: client.connect() of call c rejects; the error is logged and rethrown.
ConnectFails(c) ==
    /\ pc[c] = "awaiting"
    /\ pc' = [pc EXCEPT ![c] = "thrown"]
    /\ UNCHANGED <<dbInstance, clientInstance, connected, returned>>
    /\ UNCHANGED <<uiVars, exVars>>

---------------------------------------------------------------------------
(* handleDownloadPNG, Graph.js:270-306 *)

Exports == 1..MaxExports

\* Graph.js:291, 305 with the draw not waiting for the load event.
OnLoadMayRunWhileLoading(image) == image \in {"loading", "loaded"}

\* Graph.js:291: the function assigned to image.onload runs when the image's
\* load event fires, which the browser does once the image has loaded.
OnLoadMayRun(image) == image = "loaded"

\* Graph.js:271-289, 305: the click handler. It serializes the svg, creates
\* this export's canvas and Image, sets onload and starts the load by
\* assigning image.src. Exports are numbered in the order of the clicks.
HandleDownloadPNG(e) ==
    /\ exPc[e] = "idle"
    /\ IF e = 1 THEN TRUE ELSE exPc[e - 1] # "idle"
    /\ exPc' = [exPc EXCEPT ![e] = "loading"]
    /\ exImage' = [exImage EXCEPT ![e] = "loading"]
    /\ exCanvas' = [exCanvas EXCEPT ![e] = "blank"]
    /\ exLog' = [exLog EXCEPT ![e] = Append(@, "src")]
    /\ UNCHANGED exDownloads
    /\ UNCHANGED <<uiVars, dbVars>>

\* The browser finishes loading the image of export e.
ImageLoads(e) ==
    /\ exImage[e] = "loading"
    /\ exImage' = [exImage EXCEPT ![e] = "loaded"]
    /\ exLog' = [exLog EXCEPT ![e] = Append(@, "loaded")]
    /\ UNCHANGED <<exPc, exCanvas, exDownloads>>
    /\ UNCHANGED <<uiVars, dbVars>>

\* The image of export e fails to load: no onerror is set, nothing runs.
ImageFails(e) ==
    /\ exImage[e] = "loading"
    /\ exPc[e] = "loading"
    /\ exImage' = [exImage EXCEPT ![e] = "error"]
    /\ UNCHANGED <<exPc, exCanvas, exDownloads, exLog>>
    /\ UNCHANGED <<uiVars, dbVars>>

\* Graph.js:291-303: image.onload of export e: draw the image on the canvas,
\* revoke the url, ask for the canvas's encoding.
OnLoad(e) ==
    /\ exPc[e] = "loading"
    /\ OnLoadMayRun(exImage[e])
    /\ exCanvas' = [exCanvas EXCEPT ![e] = "drawn"]
    /\ exPc' = [exPc EXCEPT ![e] = "encoding"]
    /\ exLog' = [exLog EXCEPT ![e] = Append(@, "draw")]
    /\ UNCHANGED <<exImage, exDownloads>>
    /\ UNCHANGED <<uiVars, dbVars>>

\* Graph.js:295-302: the canvas of export e has been encoded and toBlob's
\* callback runs with the blob, or with null when the canvas could not be
\* encoded; URL.createObjectURL(null) throws before the link is clicked.
ToBlobCallback(e, blob) ==
    /\ exPc[e] = "encoding"
    /\ IF blob
       THEN /\ exPc' = [exPc EXCEPT ![e] = "done"]
            /\ exDownloads' = [exDownloads EXCEPT ![e] = @ + 1]
            /\ exLog' = [exLog EXCEPT ![e] = @ \o <<"encoded", "download">>]
       ELSE /\ exPc' = [exPc EXCEPT ![e] = "failed"]
            /\ exLog' = [exLog EXCEPT ![e] = Append(@, "encoded")]
            /\ UNCHANGED exDownloads
    /\ UNCHANGED <<exImage, exCanvas>>
    /\ UNCHANGED <<uiVars, dbVars>>

---------------------------------------------------------------------------
(* Inputs *)

NodeIds   == <<"A", "B", "C">>
PhantomId == "Z"    \* an id no node of a dataset has
EndIds    == Range(NodeIds) \cup {PhantomId}
Links     == [source : EndIds, target : EndIds]

NodesOf(k, urlOf) == [i \in 1..k |-> [id |-> NodeIds[i], url |-> urlOf[i]]]
NoUrls            == [i \in 1..Len(NodeIds) |-> Undefined]

\* Every dataset of up to three nodes A, B, C and up to n links between
\* A, B, C and an id that is no node's.
Datasets(n) ==
    {[oid |-> 1, nodes |-> NodesOf(k, NoUrls), links |-> ls] :
        k \in 0..Len(NodeIds), ls \in SeqsUpTo(Links, n)}

Urls ==
    {Undefined, Str(<<>>), Str(<<"#">>),
     Str(<<"h", "t", "t", "p", ":", "/", "/", "a">>),
     Str(<<"h", "t", "t", "p", "s", ":", "/", "/", "b">>),
     Str(<<"h", "t", "t">>),
     Str(<<"f", "t", "p", ":", "/", "/", "c">>),
     Str(<<"H", "T", "T", "P", ":", "/", "/", "d">>),
     Str(<<"/", "h", "t", "t", "p">>)}

\* Two linked nodes with every pair of urls.
ClickDatasets ==
    {[oid |-> 1, nodes |-> NodesOf(2, <<ua, ub>>),
      links |-> <<[source |-> "A", target |-> "B"]>>] : ua \in Urls, ub \in Urls}

\* The Dataset objects a parent passes over time; an object's index is its
\* identity. Objects 2 and 5 are equal in content and distinct objects.
DataObjects ==
    <<[nodes |-> NodesOf(0, NoUrls), links |-> <<>>],
      [nodes |-> NodesOf(3, NoUrls), links |-> <<[source |-> "A", target |-> "B"]>>],
      [nodes |-> NodesOf(2, NoUrls), links |-> <<>>],
      [nodes |-> NodesOf(2, NoUrls), links |-> <<[source |-> "B", target |-> "A"],
                                                 [source |-> "A", target |-> "B"]>>],
      [nodes |-> NodesOf(3, NoUrls), links |-> <<[source |-> "A", target |-> "B"]>>]>>

DataObject(i) ==
    [oid |-> i, nodes |-> DataObjects[i].nodes, links |-> DataObjects[i].links]

Viewports ==
    {[width |-> 0, height |-> 0], [width |-> 59, height |-> 200],
     [width |-> 200, height |-> 59], [width |-> 60, height |-> 60],
     [width |-> 200, height |-> 100]}

SimPoints == << <<-50, 400>>, <<45, 45>>, <<400, -50>>, <<170, 30>> >>

\* Layouts that put the nodes at different points, every node at every
\* point of SimPoints in one of them.
SimLayouts ==
    {[id \in Range(NodeIds) |->
        SimPoints[((k + (CHOOSE i \in DOMAIN NodeIds : NodeIds[i] = id))
                     % Len(SimPoints)) + 1]] : k \in 1..Len(SimPoints)}

DefaultViewport == [width |-> 200, height |-> 100]
DefaultLayout   == CHOOSE l \in SimLayouts : l["A"] = SimPoints[1]

---------------------------------------------------------------------------
(* Specifications *)

\* The component right after its first commit, and no call of
\* connectToMongoDB made yet.
InitWith(d, vp, layout) ==
    /\ data = d
    /\ graphRendered = FALSE
    /\ effectDue = TRUE
    /\ viewport = vp
    /\ forceLayout = layout
    /\ svgNodes = <<>>
    /\ svgLinks = <<>>
    /\ hlLinks = {}
    /\ hlCircles = {}
    /\ effectLog = <<>>
    /\ lastEvent = [type |-> "none", node |-> "", dirty |-> FALSE]
    /\ clicked = <<>>
    /\ opened = <<>>
    /\ warned = 0
    /\ dbInstance = 0
    /\ clientInstance = 0
    /\ pc = [c \in Calls |-> "idle"]
    /\ connected = {}
    /\ returned = [c \in Calls |-> 0]
    /\ exPc = [e \in Exports |-> "idle"]
    /\ exImage = [e \in Exports |-> "none"]
    /\ exCanvas = [e \in Exports |-> "none"]
    /\ exDownloads = [e \in Exports |-> 0]
    /\ exLog = [e \in Exports |-> <<>>]

\* renderStaticGraph on every dataset.
InitRender == \E d \in Datasets(MaxLinks) : InitWith(d, DefaultViewport, DefaultLayout)
NextRender == RunEffect
SpecRender == InitRender /\ [][NextRender]_vars

\* renderStaticGraph in every viewport, on every layout the simulation leaves.
InitLayout ==
    \E d \in Datasets(MaxLayoutLinks), vp \in Viewports, layout \in SimLayouts :
        InitWith(d, vp, layout)
NextLayout == RunEffect
SpecLayout == InitLayout /\ [][NextLayout]_vars

\* Hovering over a rendered graph.
InitHover == \E d \in Datasets(MaxHoverLinks) : InitWith(d, DefaultViewport, DefaultLayout)
NextHover ==
    \/ RunEffect
    \/ \E i \in 1..Len(NodeIds) : MouseOver(i)
    \/ \E i \in 1..Len(NodeIds) : MouseOut(i)
SpecHover == InitHover /\ [][NextHover]_vars

\* Clicking the nodes of a rendered graph.
InitClick == \E d \in ClickDatasets : InitWith(d, DefaultViewport, DefaultLayout)
NextClick ==
    \/ RunEffect
    \/ \E i \in 1..Len(NodeIds) : Click(i)
SpecClick == InitClick /\ [][NextClick]_vars

\* The parent replacing the `data` prop over the component's life.
InitLife ==
    \E i \in DOMAIN DataObjects : InitWith(DataObject(i), DefaultViewport, DefaultLayout)
NextLife ==
    \/ RunEffect
    \/ \E i \in DOMAIN DataObjects : SetData(DataObject(i))
SpecLife == InitLife /\ [][NextLife]_vars

\* Calls of connectToMongoDB, interleaved at their awaits.
InitDb == InitWith(DataObject(1), DefaultViewport, DefaultLayout)
NextDb ==
    \/ \E c \in Calls : CallConnect(c)
    \/ \E c \in Calls : ConnectSucceeds(c)
    \/ \E c \in Calls : Resume(c)
    \/ \E c \in Calls : ConnectFails(c)
SpecDb == InitDb /\ [][NextDb]_vars

\* PNG exports, started while earlier ones are still pending.
InitExport == InitWith(DataObject(1), DefaultViewport, DefaultLayout)
NextExport ==
    \/ \E e \in Exports : HandleDownloadPNG(e)
    \/ \E e \in Exports : ImageLoads(e)
    \/ \E e \in Exports : ImageFails(e)
    \/ \E e \in Exports : OnLoad(e)
    \/ \E e \in Exports, blob \in BOOLEAN : ToBlobCallback(e, blob)
SpecExport == InitExport /\ [][NextExport]_vars

---------------------------------------------------------------------------
(* Claims *)

RenderedIds == {svgNodes[i].id : i \in DOMAIN svgNodes}

\* The ids of the nodes of d that are the source or the target of a link of d.
EndpointNodeIds(d) ==
    {d.nodes[i].id : i \in {k \in DOMAIN d.nodes :
        \E j \in DOMAIN d.links :
            d.links[j].source = d.nodes[k].id \/ d.links[j].target = d.nodes[k].id}}

\* C1: the rendered nodes are exactly the nodes of data.nodes that are an
\* endpoint of some link of data.links, each rendered once.
C1_RenderedNodesAreEndpointNodes ==
    graphRendered =>
        /\ RenderedIds = EndpointNodeIds(data)
        /\ Len(svgNodes) = Cardinality(RenderedIds)

\* C1's example: nodes A, B, C with the single link A -> B renders the two
\* nodes A, B and one link; C is dropped.
C1_Witness ==
    /\ graphRendered
    /\ Len(data.nodes) = 3
    /\ data.links = <<[source |-> "A", target |-> "B"]>>
    /\ RenderedIds = {"A", "B"}
    /\ Len(svgLinks) = 1

\* C2: every rendered link has both its source and its target among the
\* rendered nodes.
C2_RenderedLinksJoinRenderedNodes ==
    graphRendered =>
        \A i \in DOMAIN svgLinks :
            svgLinks[i].source \in RenderedIds /\ svgLinks[i].target \in RenderedIds

\* The number of rendered links whose target is node id.
IncomingCount(id) == Cardinality({i \in DOMAIN svgLinks : svgLinks[i].target = id})

\* C3: the radius is non-decreasing in the incoming-link count, lies in
\* [20, 40], is 20 at count 0 and is 40 at the largest count of a rendered
\* node when that count is at least 1.
C3_RadiusMonotoneBoundedAnchored ==
    graphRendered =>
        \A i \in DOMAIN svgNodes :
            /\ \A j \in DOMAIN svgNodes :
                  IncomingCount(svgNodes[i].id) <= IncomingCount(svgNodes[j].id)
                      => RLeq(svgNodes[i].r, svgNodes[j].r)
            /\ 20 * svgNodes[i].r.den <= svgNodes[i].r.num
            /\ svgNodes[i].r.num <= 40 * svgNodes[i].r.den
            /\ IncomingCount(svgNodes[i].id) = 0 => RIs(svgNodes[i].r, 20)
            /\ ( /\ IncomingCount(svgNodes[i].id) >= 1
                 /\ \A j \in DOMAIN svgNodes :
                       IncomingCount(svgNodes[j].id) <= IncomingCount(svgNodes[i].id) )
                  => RIs(svgNodes[i].r, 40)

\* C10 as claimed: every rendered node lies within the 30-unit margin, for
\* every viewport.
C10_PositionsWithinMargin ==
    graphRendered =>
        \A i \in DOMAIN svgNodes :
            /\ Margin <= svgNodes[i].x /\ svgNodes[i].x <= viewport.width - Margin
            /\ Margin <= svgNodes[i].y /\ svgNodes[i].y <= viewport.height - Margin

\* C10 as amended: a rendered node's x lies in [30, width - 30] when the
\* viewport is at least 60 wide, its y in [30, height - 30] when the
\* viewport is at least 60 high.
C10_PositionsWithinMarginWhenRoom ==
    graphRendered =>
        \A i \in DOMAIN svgNodes :
            /\ viewport.width >= 2 * Margin =>
                  Margin <= svgNodes[i].x /\ svgNodes[i].x <= viewport.width - Margin
            /\ viewport.height >= 2 * Margin =>
                  Margin <= svgNodes[i].y /\ svgNodes[i].y <= viewport.height - Margin

\* A node the simulation left outside the margin on both sides of a viewport
\* with room has been drawn on the margin.
C10_Witness ==
    /\ graphRendered
    /\ viewport.width > 2 * Margin
    /\ viewport.height > 2 * Margin
    /\ \E i \in DOMAIN svgNodes :
          /\ forceLayout[svgNodes[i].id][1] < Margin
          /\ forceLayout[svgNodes[i].id][2] > viewport.height - Margin
          /\ svgNodes[i].x = Margin
          /\ svgNodes[i].y = viewport.height - Margin


\* The runs of the effect that rendered the Dataset object oid.
RendersOf(oid) ==
    {k \in DOMAIN effectLog : effectLog[k] = [oid |-> oid, rendered |-> TRUE]}

\* C4: a run of the effect with a Dataset object that has been rendered
\* renders nothing and leaves the diagram as it is, so no Dataset object is
\* rendered twice.
C4_NoSecondRenderOfADataset ==
    [][ (Len(effectLog') = Len(effectLog) + 1 /\ RendersOf(data.oid) # {})
            => /\ ~effectLog'[Len(effectLog')].rendered
               /\ Cardinality({k \in DOMAIN effectLog' :
                      effectLog'[k] = [oid |-> data.oid, rendered |-> TRUE]}) = 1
               /\ <<svgNodes, svgLinks, hlLinks, hlCircles>>' =
                      <<svgNodes, svgLinks, hlLinks, hlCircles>> ]_vars

\* The effect has run again with the Dataset object it rendered, both right
\* after the render and after the object was passed again later.
C4_Witness ==
    \E k \in DOMAIN effectLog :
        /\ effectLog[k] = [oid |-> data.oid, rendered |-> TRUE]
        /\ k + 1 \in DOMAIN effectLog
        /\ effectLog[k + 1] = [oid |-> data.oid, rendered |-> FALSE]
        /\ \E j \in DOMAIN effectLog :
              /\ j > k + 1
              /\ effectLog[j].oid # data.oid
              /\ effectLog[Len(effectLog)] = [oid |-> data.oid, rendered |-> FALSE]
              /\ Len(effectLog) > j
        /\ ~effectDue

\* C5: once the effect has run for it, a Dataset object with a node and a
\* link has been rendered exactly once, whatever was rendered before it.
C5_EveryDatasetRenderedOnce ==
    (~effectDue /\ Len(data.nodes) > 0 /\ Len(data.links) > 0)
        => Cardinality(RendersOf(data.oid)) = 1

\* The rendered links that have node id as their source or target.
LinksTouching(id) ==
    {i \in DOMAIN svgLinks : id \in {svgLinks[i].source, svgLinks[i].target}}

\* The rendered nodes a rendered link joins to node id, in either direction.
Neighbours(id) ==
    {n \in RenderedIds :
        \E i \in DOMAIN svgLinks :
            <<svgLinks[i].source, svgLinks[i].target>> \in {<<id, n>>, <<n, id>>}}

\* C6: after a mouseover on node A the highlighted links are exactly those
\* touching A and the highlighted circles exactly A's and its neighbours'.
C6_MouseOverHighlightsExactly ==
    lastEvent.type = "mouseover" =>
        /\ hlLinks = LinksTouching(lastEvent.node)
        /\ hlCircles = {lastEvent.node} \cup Neighbours(lastEvent.node)

\* C7: after a mouseout nothing is highlighted.
C7_MouseOutClearsAll ==
    lastEvent.type = "mouseout" => hlLinks = {} /\ hlCircles = {}

\* A mouseout that found links and circles highlighted, among them circles
\* of nodes other than the one left.
C7_Witness ==
    /\ lastEvent.type = "mouseout"
    /\ lastEvent.dirty
    /\ Neighbours(lastEvent.node) \ {lastEvent.node} # {}
    /\ hlLinks = {}
    /\ hlCircles = {}

\* A url that is a string starting with "http".
HttpPrefixed(url) == url.defined /\ StartsWith(url.chars, Http)

\* C8: the navigations are, in order, the urls of the clicks on nodes with an
\* http-prefixed url, one each; every other click only logs a warning.
C8_OneNavigationPerHttpClick ==
    /\ opened = SelectSeq(clicked, HttpPrefixed)
    /\ warned = Len(clicked) - Len(opened)

\* One click on a node with an http url and one on a node without.
C8_Witness ==
    /\ Len(clicked) = 2
    /\ HttpPrefixed(clicked[1])
    /\ clicked[2].defined /\ clicked[2].chars # <<>> /\ ~HttpPrefixed(clicked[2])
    /\ Len(opened) = 1
    /\ warned = 1

\* C9: at most one connection is established and all calls that return,
\* return the same handle.
C9_SingleConnectionSingleHandle ==
    /\ Cardinality(connected) <= 1
    /\ \A c1 \in Calls, c2 \in Calls :
          (pc[c1] = "returned" /\ pc[c2] = "returned") => returned[c1] = returned[c2]


\* The places of event ev in the history of export e.
At(e, ev) == {i \in DOMAIN exLog[e] : exLog[e][i] = ev}

\* C11: in every PNG export the draw comes after that export's image has
\* loaded, the download after that draw and the encoding; an export triggers
\* at most one download, and none while its image has not loaded.
C11_DrawAfterLoadDownloadAfterDraw ==
    \A e \in Exports :
        /\ \A i \in At(e, "draw") : \E j \in At(e, "loaded") : j < i
        /\ \A i \in At(e, "download") :
              /\ \E j \in At(e, "draw") : j < i
              /\ \E j \in At(e, "encoded") : j < i
        /\ exCanvas[e] = "drawn" => exImage[e] = "loaded"
        /\ exDownloads[e] = Cardinality(At(e, "download"))
        /\ exDownloads[e] <= 1
        /\ exImage[e] # "loaded" => exDownloads[e] = 0

\* Three overlapping exports: the second has downloaded its file while the
\* first still waits for its encoding, and the third's image failed to load.
C11_Witness ==
    /\ exPc[2] = "done" /\ exDownloads[2] = 1
    /\ exLog[2] = <<"src", "loaded", "draw", "encoded", "download">>
    /\ exPc[1] = "encoding" /\ exDownloads[1] = 0
    /\ exImage[3] = "error" /\ exDownloads[3] = 0

=============================================================================
